---- MODULE Spec2Model ----
(***************************************************************************)
(* Model of nomixedcontent.py: a depth-bounded crawl (scan) that inspects  *)
(* every frontier page for mixed content (check_mixed_content) and expands *)
(* the frontier with the same-site links of every page (get_all_urls).     *)
(*                                                                         *)
(* Strings (URLs, hrefs, attribute values, header values, inline text) are *)
(* sequences of tokens: the delimiters ":", "/", "?", "#" are tokens of    *)
(* their own, every other token is a run of ordinary characters, so        *)
(* "https://site.test/about" is <<"https",":","/","/","site.test","/",     *)
(* "about">>.  Python's None is the one-token sequence None.               *)
(***************************************************************************)
EXTENDS Naturals, Sequences, FiniteSets, TLC

(***************************************************************************)
(* String helpers.                                                         *)
(***************************************************************************)
None == <<"<None>">>

\* Python truthiness of an Optional[str]: None and "" are false.
Truthy(s) == s # None /\ s # <<>>

\* first index of token c in s, 0 when absent (str.find, 1-based)
Find(s, c) ==
    IF \E i \in 1..Len(s) : s[i] = c
    THEN CHOOSE i \in 1..Len(s) : s[i] = c /\ \A j \in 1..(i - 1) : s[j] # c
    ELSE 0

\* first index of any token of set cs in s, Len(s) + 1 when absent
FindAny(s, cs) ==
    IF \E i \in 1..Len(s) : s[i] \in cs
    THEN CHOOSE i \in 1..Len(s) : s[i] \in cs /\ \A j \in 1..(i - 1) : s[j] \notin cs
    ELSE Len(s) + 1

\* s[i:] of Python, for the 1-based index i
From(s, i) == SubSeq(s, i, Len(s))

\* str.lower() on the tokens of the model that carry upper-case letters
LowerTok(t) ==
    CASE t = ".PHP"  -> ".php"
      [] t = ".HTML" -> ".html"
      [] t = "HTTPS" -> "https"
      [] OTHER       -> t

Lower(s) == [i \in 1..Len(s) |-> LowerTok(s[i])]

\* 'http:' in s
HasHttp(s) == \E i \in 1..(Len(s) - 1) : s[i] = "http" /\ s[i + 1] = ":"

(***************************************************************************)
(* urllib.parse, on token sequences.                                       *)
(***************************************************************************)
\* tokens that are no run of scheme characters (letters, digits, "+-.")
NotSchemeToks == {":", "/", "?", "#", "x@y", "<None>", "[", "]"}

\* urlsplit's scheme test: the text before the first ":" is non-empty and
\* made of scheme characters
HasScheme(u) ==
    LET i == Find(u, ":")
    IN  i > 1 /\ \A j \in 1..(i - 1) : u[j] \notin NotSchemeToks

AfterScheme(u) == IF HasScheme(u) THEN From(u, Find(u, ":") + 1) ELSE u

HasNetlocMark(r) == Len(r) >= 2 /\ r[1] = "/" /\ r[2] = "/"

\* end (exclusive) of the netloc that starts at index 3 of r
NetlocEnd(r) == 2 + FindAny(From(r, 3), {"/", "?", "#"})

AfterNetloc(r) == IF HasNetlocMark(r) THEN From(r, NetlocEnd(r)) ELSE r

BeforeTok(r, c) == IF Find(r, c) = 0 THEN r ELSE SubSeq(r, 1, Find(r, c) - 1)
AfterTok(r, c) == IF Find(r, c) = 0 THEN <<>> ELSE From(r, Find(r, c) + 1)

\* urlparse(url): scheme, netloc, path, query, fragment (params are not
\* modelled: no token carries ";").  urlparse(None) has empty components.
urlparse(url) ==
    LET u  == IF url = None THEN <<>> ELSE url
        r1 == AfterScheme(u)
        r2 == AfterNetloc(r1)
        r3 == BeforeTok(r2, "#")
    IN  [scheme   |-> IF HasScheme(u) THEN Lower(SubSeq(u, 1, Find(u, ":") - 1))
                      ELSE <<>>,
         netloc   |-> IF HasNetlocMark(r1) THEN SubSeq(r1, 3, NetlocEnd(r1) - 1)
                      ELSE <<>>,
         path     |-> BeforeTok(r3, "?"),
         query    |-> AfterTok(r3, "?"),
         fragment |-> AfterTok(r2, "#")]

\* urlparse(url) raises ValueError("Invalid IPv6 URL"): the netloc has one
\* of "[" and "]" without the other
UrlparseRaises(url) ==
    LET n == urlparse(url).netloc
    IN  (Find(n, "[") # 0) # (Find(n, "]") # 0)

uses_relative == {<<>>, <<"http">>, <<"https">>, <<"ftp">>, <<"file">>}
uses_netloc == {<<>>, <<"http">>, <<"https">>, <<"ftp">>, <<"file">>}

\* urlunparse((scheme, netloc, path, '', query, fragment))
urlunparse(p) ==
    LET u1 == IF p.netloc # <<>>
                 \/ (p.scheme # <<>> /\ p.scheme \in uses_netloc
                     /\ ~HasNetlocMark(p.path))
              THEN <<"/", "/">> \o p.netloc
                   \o (IF p.path # <<>> /\ p.path[1] # "/" THEN <<"/">> ELSE <<>>)
                   \o p.path
              ELSE p.path
        u2 == IF p.scheme # <<>> THEN p.scheme \o <<":">> \o u1 ELSE u1
        u3 == IF p.query # <<>> THEN u2 \o <<"?">> \o p.query ELSE u2
    IN  IF p.fragment # <<>> THEN u3 \o <<"#">> \o p.fragment ELSE u3

\* path.split('/'): the segments between the "/" tokens, each a token sequence
RECURSIVE SplitSlash(_)
SplitSlash(path) ==
    IF Find(path, "/") = 0 THEN <<path>>
    ELSE <<SubSeq(path, 1, Find(path, "/") - 1)>>
         \o SplitSlash(From(path, Find(path, "/") + 1))

\* '/'.join(segments)
RECURSIVE JoinSlash(_)
JoinSlash(segs) ==
    IF Len(segs) = 0 THEN <<>>
    ELSE IF Len(segs) = 1 THEN segs[1]
    ELSE segs[1] \o <<"/">> \o JoinSlash(Tail(segs))

\* segments[1:-1] = filter(None, segments[1:-1])
FilterMiddle(segs) ==
    IF Len(segs) <= 2 THEN segs
    ELSE <<segs[1]>>
         \o SelectSeq(SubSeq(segs, 2, Len(segs) - 1), LAMBDA s : s # <<>>)
         \o <<segs[Len(segs)]>>

\* the loop of urljoin that removes "." and ".." segments
RECURSIVE ResolveDots(_, _)
ResolveDots(segs, acc) ==
    IF segs = <<>> THEN acc
    ELSE IF Head(segs) = <<"..">>
         THEN ResolveDots(Tail(segs),
                          IF Len(acc) > 0 THEN SubSeq(acc, 1, Len(acc) - 1) ELSE acc)
    ELSE IF Head(segs) = <<".">> THEN ResolveDots(Tail(segs), acc)
    ELSE ResolveDots(Tail(segs), Append(acc, Head(segs)))

\* urljoin(base, url)
urljoin(base, url) ==
    LET b  == urlparse(base)
        p0 == urlparse(url)
        scheme == IF p0.scheme = <<>> THEN b.scheme ELSE p0.scheme
        base_parts0 == SplitSlash(b.path)
        base_parts == IF base_parts0[Len(base_parts0)] # <<>>
                      THEN SubSeq(base_parts0, 1, Len(base_parts0) - 1)
                      ELSE base_parts0
        segments == IF p0.path # <<>> /\ p0.path[1] = "/"
                    THEN SplitSlash(p0.path)
                    ELSE FilterMiddle(base_parts \o SplitSlash(p0.path))
        resolved0 == ResolveDots(segments, <<>>)
        resolved == IF segments[Len(segments)] \in {<<".">>, <<"..">>}
                    THEN Append(resolved0, <<>>) ELSE resolved0
        joined == JoinSlash(resolved)
    IN  IF base = <<>> THEN url
        ELSE IF url = <<>> THEN base
        ELSE IF scheme # b.scheme \/ scheme \notin uses_relative THEN url
        ELSE IF scheme \in uses_netloc /\ p0.netloc # <<>>
             THEN urlunparse([p0 EXCEPT !.scheme = scheme])
        ELSE IF p0.path = <<>>
             THEN urlunparse([scheme |-> scheme, netloc |-> b.netloc,
                              path |-> b.path,
                              query |-> IF p0.query = <<>> THEN b.query ELSE p0.query,
                              fragment |-> p0.fragment])
        ELSE urlunparse([scheme |-> scheme, netloc |-> b.netloc,
                         path |-> IF joined = <<>> THEN <<"/">> ELSE joined,
                         query |-> p0.query, fragment |-> p0.fragment])

\* os.path.splitext(path)[1]: the text from the last "." of the last path
\* component, unless only dots precede it in that component.  Extension
\* tokens are the tokens "." + letters; "." and ".." are the dot segments;
\* the "." inside a host name token never reaches a path.
ExtToks == {".pdf", ".php", ".PHP", ".html", ".HTML", ".png"}

splitext_ext(path) ==
    LET n == Len(path)
        start == IF \E i \in 1..n : path[i] = "/"
                 THEN 1 + CHOOSE i \in 1..n :
                              path[i] = "/" /\ \A j \in (i + 1)..n : path[j] # "/"
                 ELSE 1
    IN  IF n >= 1 /\ path[n] \in ExtToks
           /\ \E j \in start..(n - 1) : path[j] \notin {".", ".."}
        THEN <<path[n]>>
        ELSE <<>>

(***************************************************************************)
(* HTML documents.  A parsed document is the sequence of its elements in   *)
(* document order; an element has a tag name, the four attributes the      *)
(* program reads (None when absent) and its inline text.                   *)
(***************************************************************************)
NoAttrs == [href |-> None, src |-> None, data |-> None, action |-> None]

Elem(tag, attrs, text) == [tag |-> tag, attrs |-> attrs, text |-> text]

A(href) == Elem("a", [NoAttrs EXCEPT !.href = href], <<>>)
Img(src) == Elem("img", [NoAttrs EXCEPT !.src = src], <<>>)
Script(src, text) == Elem("script", [NoAttrs EXCEPT !.src = src], text)

\* bs.find_all(tag_name)
find_all(bs, tag_name) == SelectSeq(bs, LAMBDA e : e.tag = tag_name)

(***************************************************************************)
(* check_mixed_content: the scan of one parsed page.                       *)
(***************************************************************************)
tags_to_check ==
    << <<"img", "src">>, <<"iframe", "src">>, <<"script", "src">>,
       <<"object", "data">>, <<"form", "action">>, <<"embed", "src">>,
       <<"video", "src">>, <<"audio", "src">>, <<"source", "src">>,
       <<"link", "href">>, <<"style", "">> >>

AttrFinding(v) == [kind |-> "attr_value", value |-> v]
TagFinding(tag) == [kind |-> "tag", value |-> tag.text]

\* an inspector that looks at the inline text only when the attribute was
\* not flagged
TagFindingsEither(tag, tag_name, tag_attr) ==
    IF tag_attr # "" /\ Truthy(tag.attrs[tag_attr]) /\ HasHttp(tag.attrs[tag_attr])
    THEN <<AttrFinding(tag.attrs[tag_attr])>>
    ELSE IF tag_name \in {"script", "style"} /\ HasHttp(tag.text)
         THEN <<TagFinding(tag)>> ELSE <<>>

\* what one element appends for the table entry (tag_name, tag_attr)
TagFindings(tag, tag_name, tag_attr) ==
    (IF tag_attr # "" /\ Truthy(tag.attrs[tag_attr]) /\ HasHttp(tag.attrs[tag_attr])
     THEN <<AttrFinding(tag.attrs[tag_attr])>> ELSE <<>>)
    \o (IF tag_name \in {"script", "style"} /\ HasHttp(tag.text)
        THEN <<TagFinding(tag)>> ELSE <<>>)

RECURSIVE EntryFindings(_, _, _)
EntryFindings(all_tags, tag_name, tag_attr) ==
    IF all_tags = <<>> THEN <<>>
    ELSE TagFindings(Head(all_tags), tag_name, tag_attr)
         \o EntryFindings(Tail(all_tags), tag_name, tag_attr)

RECURSIVE TableFindings(_, _)
TableFindings(bs, table) ==
    IF table = <<>> THEN <<>>
    ELSE EntryFindings(find_all(bs, Head(table)[1]), Head(table)[1], Head(table)[2])
         \o TableFindings(bs, Tail(table))

\* the list appended to mixed_content[page_url] for the parsed page bs
MixedContentOf(bs) == TableFindings(bs, tags_to_check)

(***************************************************************************)
(* get_all_urls: the links of one parsed page.                             *)
(***************************************************************************)
web_page_ext ==
    { <<".htm">>, <<".html">>, <<".js">>, <<".aspx">>, <<"aspx">>, <<".pl">>,
      <<".php">>, <<".php3">>, <<".cfm">>, <<".cfml">>, <<".py">>, <<".cgi">> }

\* line 75: the anchor points at the page itself
SamePage(href_url, page_url) == href_url = page_url \/ href_url = <<"/">>

\* line 80: the extension is empty or one of a web page
KnownResource(href_url) ==
    LET ext == splitext_ext(urlparse(href_url).path)
    IN  Len(ext) = 0 \/ Lower(ext) \in web_page_ext

\* a link extractor that forgets to compare the network locations
AbsoluteAnySite(href_url, page_url) == urlparse(href_url).scheme = <<"https">>

\* lines 86-87: absolute link on the page's network location
AbsoluteSameSite(href_url, page_url) ==
    /\ urlparse(href_url).scheme = <<"https">>
    /\ urlparse(href_url).netloc = urlparse(page_url).netloc

\* a link extractor that takes a reference without a path for a relative link
IsRelativeAnyPath(href_url) ==
    /\ Len(urlparse(href_url).scheme) = 0
    /\ Len(urlparse(href_url).netloc) = 0

\* lines 89-91: relative link
IsRelative(href_url) ==
    /\ Len(urlparse(href_url).scheme) = 0
    /\ Len(urlparse(href_url).netloc) = 0
    /\ Len(urlparse(href_url).path) > 0

\* what one <a> element appends to all_urls (lines 74-93)
AnchorUrls(tag, page_url) ==
    LET href_url == tag.attrs.href
    IN  IF SamePage(href_url, page_url) THEN <<>>
        ELSE IF ~KnownResource(href_url) THEN <<>>
        ELSE IF ~(Truthy(href_url) /\ href_url[1] # "#") THEN <<>>
        ELSE IF AbsoluteSameSite(href_url, page_url) THEN <<href_url>>
        ELSE IF IsRelative(href_url) THEN <<urljoin(page_url, href_url)>>
        ELSE <<>>

\* line 78 raises for the anchor: it is not skipped at line 75 and urlparse
\* rejects its href
AnchorRaises(tag, page_url) ==
    /\ ~SamePage(tag.attrs.href, page_url)
    /\ UrlparseRaises(tag.attrs.href)

\* lines 73-95: the loop appends anchor after anchor; an exception of line 78
\* leaves the loop for the except clause of line 94, which is outside it:
\* all_urls keeps the links appended so far and the anchors after the
\* raising one are not looked at
RECURSIVE AnchorsUrls(_, _)
AnchorsUrls(anchors, page_url) ==
    IF anchors = <<>> THEN <<>>
    ELSE IF AnchorRaises(Head(anchors), page_url) THEN <<>>
    ELSE AnchorUrls(Head(anchors), page_url) \o AnchorsUrls(Tail(anchors), page_url)

\* some anchor of the loop raises
AnchorsRaise(anchors, page_url) ==
    \E i \in 1..Len(anchors) : AnchorRaises(anchors[i], page_url)

\* all_urls after the loop over the <a> elements of the parsed page
PageUrls(bs, page_url) == AnchorsUrls(find_all(bs, "a"), page_url)

(***************************************************************************)
(* The inputs of a crawl: the seed, the site, and the bounds of the model. *)
(***************************************************************************)
MaxDepth == 3       \* crawl_depth ranges over 0..MaxDepth
MaxWorkers == 2     \* max_workers ranges over 1..MaxWorkers
MaxFaults == 1      \* requests of one crawl that fail or are answered oddly

SiteRoot == <<"https", ":", "/", "/", "site.test", "/">>
Seed == SiteRoot
UrlAbout == SiteRoot \o <<"about">>
UrlPage == SiteRoot \o <<"page", ".php">>
UrlB == SiteRoot \o <<"b">>
UrlC == SiteRoot \o <<"c">>
EvilUrl == <<"https", ":", "/", "/", "evil.test", "/", "x">>
HttpImg == <<"http", ":", "/", "/", "cdn.test", "/", "x", ".png">>
HttpsImg == <<"https", ":", "/", "/", "cdn.test", "/", "x", ".png">>
PlainText == <<"var u = 1">>

TextHtml == <<"text", "/", "html", "; charset=utf-8">>
ImageSvg == <<"image", "/", "svg+xml">>

Page(content_type, body) == [content_type |-> content_type, body |-> body]

\* the page of the scenario of the specification: one anchor, one image
PageScenario == Page(TextHtml, << A(<<"/", "about">>), Img(HttpImg) >>)

PageHome ==
    Page(TextHtml,
         << A(<<"/", "about">>), A(<<"/", "page", ".php">>),
            A(<<"/">>), A(<<"#", "top">>), A(Seed), Img(HttpImg) >>)

PageBack ==
    Page(TextHtml,
         << A(Seed), A(<<"/", "about">>), A(EvilUrl),
            A(<<"http", ":", "/", "/", "site.test", "/", "about">>),
            Script(None, <<"var u = '", "http", ":", "/", "/", "cdn.test", "/", "b", ".js", "'">>) >>)

PageRel ==
    Page(TextHtml,
         << A(<<".">>), A(<<"/", "doc", ".pdf">>), A(<<"/", "c">>), A(None),
            A(<<"/", "/", "evil.test", "/", "x">>), A(<<"mailto", ":", "x@y">>),
            Script(HttpImg, <<>>) >>)

PageSvg == Page(ImageSvg, << Img(HttpImg), A(<<"/", "c">>) >>)

\* a page with an href urlparse rejects, between two links of the site
BadHref == <<"http", ":", "/", "/", "[">>
PageBroken ==
    Page(TextHtml,
         << A(<<"/", "about">>), A(BadHref), A(<<"/", "page", ".php">>), Img(HttpImg) >>)

\* a page without mixed content
PagePlain ==
    Page(TextHtml,
         << A(<<"/", "about">>), A(<<"b">>), Img(HttpsImg), Script(None, PlainText) >>)

SiteUrls == {Seed, UrlAbout, UrlPage}
\* the pages by name: a site maps each of its URLs to the name of its page
PageNamed(name) ==
    CASE name = "scenario" -> PageScenario
      [] name = "home"     -> PageHome
      [] name = "back"     -> PageBack
      [] name = "rel"      -> PageRel
      [] name = "svg"      -> PageSvg
      [] name = "plain"    -> PagePlain
      [] name = "broken"   -> PageBroken

SeedPages == {"scenario", "home", "rel", "svg", "plain", "broken"}
InnerPages == {"back", "rel"}

Sites ==
    { s \in [SiteUrls -> SeedPages \cup InnerPages] :
        /\ s[Seed] \in SeedPages
        /\ \A u \in SiteUrls \ {Seed} : s[u] \in InnerPages }

ErrorBody == << Img(HttpImg), A(<<"/", "c">>) >>

(***************************************************************************)
(* The inputs of one call of get_all_urls or check_mixed_content on its    *)
(* own: a page URL and a parsed document of at most MaxElems elements.     *)
(***************************************************************************)
MaxElems == 2       \* elements of the document of one call

HttpText == <<"var u = '", "http", ":", "/", "/", "cdn.test", "/", "b", ".js", "'">>
QueryOnly == <<"?", "q=1">>
JavaScript == <<"javascript", ":", "void(0)">>
MailTo == <<"mailto", ":", "x@y">>
SchemeRelative == <<"/", "/", "evil.test", "/", "x">>
HttpSameSite == <<"http", ":", "/", "/", "site.test", "/", "about">>
UpperSameSite == <<"HTTPS", ":", "/", "/", "site.test", "/", "about">>
DeepUrl == <<"https", ":", "/", "/", "site.test", "/", "a", "/", "b">>

CallHrefs ==
    { None, <<>>, <<"/">>, <<"#", "top">>, <<"/", "about">>, <<"b">>, <<".">>,
      <<"/", "doc", ".pdf">>, <<"/", "page", ".PHP">>,
      <<"https", ":", "/", "/", "site.test", "/">>,
      <<"https", ":", "/", "/", "site.test", "/", "about">>,
      <<"https", ":", "/", "/", "site.test", "/", "doc", ".pdf">>,
      <<"https", ":", "/", "/", "evil.test", "/", "x">>,
      HttpSameSite, UpperSameSite, SchemeRelative, MailTo, JavaScript, QueryOnly }

CallElems ==
    { A(h) : h \in CallHrefs }
    \cup { Img(HttpImg), Img(HttpsImg), Img(None),
           Script(HttpImg, HttpText), Script(HttpImg, <<>>), Script(None, HttpText),
           Script(HttpsImg, PlainText),
           Elem("style", NoAttrs, HttpText), Elem("style", NoAttrs, PlainText),
           Elem("link", [NoAttrs EXCEPT !.href = HttpImg], <<>>),
           Elem("form", [NoAttrs EXCEPT !.action = HttpSameSite], <<>>),
           Elem("object", [NoAttrs EXCEPT !.data = HttpImg], <<>>),
           Elem("iframe", [NoAttrs EXCEPT !.src = HttpImg], HttpText),
           Elem("p", NoAttrs, HttpText) }

Docs == UNION { [1..n -> CallElems] : n \in 0..MaxElems }
CallUrls == { <<"https", ":", "/", "/", "site.test", "/">>, DeepUrl }

VARIABLES
    site,           \* input: the name of the page served for each URL of the site
    crawl_depth,    \* argument of scan
    max_workers,    \* argument of scan
    pc,             \* where scan is: "for", "check", "submit", "merge", "returned", "raised"
    depth,          \* loop variable of scan: the level being run
    crawl_urls,     \* the frontier
    visited_urls,   \* the visited set
    pages_left,     \* check_mixed_content: pages its loop has not reached yet
    inflight,       \* check_mixed_content: the page being requested, or None
    mixed_content,  \* check_mixed_content: page_url -> findings
    tasks,          \* the futures of the level: url -> [state, result, level, answer, raised]
    reports,        \* the calls of reporter made so far
    inspected,      \* history: the responses parsed by this call of check_mixed_content
    fetches,        \* history: the requests sent so far
    levels,         \* history: the frontier each level started with
    visited0,       \* history: visited_urls when the level started
    faults,         \* number of odd answers so far
    visited_at,     \* history: visited_urls at the start of each level
    bs,             \* one call of a function on its own: the parsed document
    bs_url,         \* one call of a function on its own: page_url
    all_urls,       \* what get_all_urls returned for (bs_url, bs)
    found,          \* what check_mixed_content collected for bs
    called          \* the functions called on (bs_url, bs) so far

vars == << site, crawl_depth, max_workers, pc, depth, crawl_urls, visited_urls,
           pages_left, inflight, mixed_content, tasks, reports, inspected,
           fetches, levels, visited0, faults, visited_at,
           bs, bs_url, all_urls, found, called >>

\* the state of scan, and the state of one call of a function on its own
scanvars == << site, crawl_depth, max_workers, pc, depth, crawl_urls, visited_urls,
               pages_left, inflight, mixed_content, tasks, reports, inspected,
               fetches, levels, visited0, faults, visited_at >>
callvars == << bs, bs_url, all_urls, found, called >>

(***************************************************************************)
(* requests.get: what one request can come back with.                      *)
(***************************************************************************)
codes_ok == 200

Response(status, url, content_type, text) ==
    [exc |-> FALSE, status |-> status, url |-> url,
     content_type |-> content_type, text |-> text]

RequestException ==
    [exc |-> TRUE, status |-> 0, url |-> <<>>, content_type |-> None, text |-> <<>>]

\* the ordinary answer of the site: its page, or 404 for a URL it does not have
Served(url) ==
    IF url \in DOMAIN site
    THEN Response(200, url, PageNamed(site[url]).content_type, PageNamed(site[url]).body)
    ELSE Response(404, url, TextHtml, ErrorBody)

\* the odd answers: a network error, a server error, a redirect to another
\* site, a response without content-type header
Odd(url) ==
    { RequestException,
      Response(500, url, TextHtml, ErrorBody),
      Response(200, EvilUrl, TextHtml, ErrorBody),
      Response(200, url, None, (Served(url)).text) }

Answers(url) == {Served(url)} \cup (IF faults < MaxFaults THEN Odd(url) ELSE {})

FaultsAfter(url, r) == IF r = Served(url) THEN faults ELSE faults + 1

(***************************************************************************)
(* The functions of the program on one answer.                             *)
(***************************************************************************)
is_same_netloc(url_x, url_y) == urlparse(url_x).netloc = urlparse(url_y).netloc

\* "text/html" in content_type
valid_content_type(content_type) ==
    \E i \in 1..(Len(content_type) - 2) :
        /\ content_type[i] = "text"
        /\ content_type[i + 1] = "/"
        /\ content_type[i + 2] = "html"

\* lines 44-45: check_mixed_content parses the response
CheckParses(page_url, response) ==
    /\ codes_ok = response.status
    /\ is_same_netloc(page_url, response.url)

\* an inspector that makes the item of a parsed page before it looks for
\* findings
CheckPageAlways(mc, page_url, response) ==
    IF CheckParses(page_url, response)
    THEN [u \in DOMAIN mc \cup {page_url} |->
            IF u = page_url
            THEN (IF u \in DOMAIN mc THEN mc[u] ELSE <<>>) \o MixedContentOf(response.text)
            ELSE mc[u]]
    ELSE mc

\* lines 44-56: mixed_content after the response of page_url was handled
CheckPage(mc, page_url, response) ==
    IF CheckParses(page_url, response) /\ MixedContentOf(response.text) # <<>>
    THEN [u \in DOMAIN mc \cup {page_url} |->
            IF u = page_url
            THEN (IF u \in DOMAIN mc THEN mc[u] ELSE <<>>) \o MixedContentOf(response.text)
            ELSE mc[u]]
    ELSE mc

\* lines 69-71: get_all_urls parses the response; response.headers[...] of a
\* missing header raises KeyError, caught at line 94
LinksParses(page_url, response) ==
    /\ codes_ok = response.status
    /\ is_same_netloc(page_url, response.url)
    /\ response.content_type # None
    /\ valid_content_type(response.content_type)

\* get_all_urls(page_url), for the answer r to its request (an exception of
\* requests.get is caught at line 94, all_urls is still empty)
get_all_urls(page_url, r) ==
    IF r.exc THEN <<>>
    ELSE IF LinksParses(page_url, r) THEN PageUrls(r.text, page_url)
    ELSE <<>>

\* lines 66-95: get_all_urls went through its except clause: requests.get
\* raised, the content-type header was missing (KeyError at line 71), or
\* urlparse raised for an anchor (line 78)
LinksRaises(page_url, r) ==
    \/ r.exc
    \/ /\ codes_ok = r.status
       /\ is_same_netloc(page_url, r.url)
       /\ r.content_type = None
    \/ /\ LinksParses(page_url, r)
       /\ AnchorsRaise(find_all(r.text, "a"), page_url)

\* set(list)
SetOf(list) == {list[i] : i \in 1..Len(list)}

(***************************************************************************)
(* scan.                                                                   *)
(***************************************************************************)
NoContent == [u \in {} |-> <<>>]
\* history of line 67: the answer a task got, without its text
Answered(r) ==
    [exc |-> r.exc, status |-> r.status, url |-> r.url, content_type |-> r.content_type]
NoAnswer == [exc |-> FALSE, status |-> 0, url |-> <<>>, content_type |-> None]

NoTasks ==
    [u \in {} |-> [state |-> "merged", result |-> {}, level |-> 0, answer |-> NoAnswer,
                   raised |-> FALSE]]

Init ==
    /\ site \in Sites
    /\ crawl_depth \in 0..MaxDepth
    /\ max_workers \in 1..MaxWorkers
    /\ pc = "for"
    /\ depth = 0
    /\ crawl_urls = {Seed}
    /\ visited_urls = {}
    /\ pages_left = {}
    /\ inflight = None
    /\ mixed_content = NoContent
    /\ tasks = NoTasks
    /\ reports = {}
    /\ inspected = {}
    /\ fetches = {}
    /\ levels = <<>>
    /\ visited0 = {}
    /\ faults = 0
    /\ visited_at = <<>>
    /\ bs = <<>>
    /\ bs_url = Seed
    /\ all_urls = <<>>
    /\ found = NoContent
    /\ called = {}

\* a loop that runs one level too many
RangeExhaustedLate == depth > crawl_depth

\* line 116: range(crawl_depth) is exhausted
RangeExhausted == depth >= crawl_depth

\* a loop without the test of the empty frontier
NeverNothingToScan == FALSE

\* line 117: nothing to scan
NothingToScan == crawl_urls = {}

\* lines 116-119: the loop ends, scan returns
ScanReturn ==
    /\ pc = "for"
    /\ RangeExhausted \/ NothingToScan
    /\ pc' = "returned"
    /\ UNCHANGED callvars
    /\ UNCHANGED << visited_at, site, crawl_depth, max_workers, depth, crawl_urls, visited_urls,
                    pages_left, inflight, mixed_content, tasks, reports, inspected,
                    fetches, levels, visited0, faults >>

\* lines 116-121: a level starts, check_mixed_content(crawl_urls) is entered
LevelStart ==
    /\ pc = "for"
    /\ ~RangeExhausted
    /\ ~NothingToScan
    /\ pc' = "check"
    /\ pages_left' = crawl_urls
    /\ mixed_content' = NoContent
    /\ inspected' = {}
    /\ levels' = Append(levels, crawl_urls)
    /\ visited0' = visited_urls
    /\ visited_at' = Append(visited_at, visited_urls)
    /\ UNCHANGED callvars
    /\ UNCHANGED << site, crawl_depth, max_workers, depth, crawl_urls, visited_urls,
                    inflight, tasks, reports, fetches, faults >>

\* line 43: the request for the next page is sent
CheckRequest(page_url) ==
    /\ pc = "check"
    /\ inflight = None
    /\ page_url \in pages_left
    /\ inflight' = page_url
    /\ pages_left' = pages_left \ {page_url}
    /\ fetches' = fetches \cup {[url |-> page_url, level |-> depth, by |-> "check"]}
    /\ UNCHANGED callvars
    /\ UNCHANGED << visited_at, site, crawl_depth, max_workers, pc, depth, crawl_urls,
                    visited_urls, mixed_content, tasks, reports, inspected, levels,
                    visited0, faults >>

\* line 43: requests.get raises, nothing catches it: scan raises
CheckRaises ==
    /\ pc = "check"
    /\ inflight # None
    /\ RequestException \in Answers(inflight)
    /\ pc' = "raised"
    /\ inflight' = None
    /\ faults' = faults + 1
    /\ UNCHANGED callvars
    /\ UNCHANGED << visited_at, site, crawl_depth, max_workers, depth, crawl_urls, visited_urls,
                    pages_left, mixed_content, tasks, reports, inspected, fetches,
                    levels, visited0 >>

\* history of line 46: the response BeautifulSoup was given, without its text
Parsed(page_url, response) ==
    [page_url |-> page_url, status |-> response.status, url |-> response.url,
     content_type |-> response.content_type]

\* lines 43-56: the response arrives and is handled
CheckResponse ==
    /\ pc = "check"
    /\ inflight # None
    /\ \E response \in Answers(inflight) \ {RequestException} :
        /\ mixed_content' = CheckPage(mixed_content, inflight, response)
        /\ inspected' = IF CheckParses(inflight, response)
                        THEN inspected \cup {Parsed(inflight, response)}
                        ELSE inspected
        /\ faults' = FaultsAfter(inflight, response)
    /\ inflight' = None
    /\ UNCHANGED callvars
    /\ UNCHANGED << visited_at, site, crawl_depth, max_workers, pc, depth, crawl_urls,
                    visited_urls, pages_left, tasks, reports, fetches, levels,
                    visited0 >>

\* lines 122-124: one call of reporter per item of mixed_content
Reported(mc, level) ==
    {[page_url |-> u, resources |-> mc[u], level |-> level] : u \in DOMAIN mc}

\* lines 58, 121-124: check_mixed_content returns and the issues are reported;
\* no future of the level exists yet
Report ==
    /\ pc = "check"
    /\ inflight = None
    /\ pages_left = {}
    /\ reports' = reports \cup Reported(mixed_content, depth)
    /\ tasks' = NoTasks
    /\ pc' = "submit"
    /\ UNCHANGED callvars
    /\ UNCHANGED << visited_at, site, crawl_depth, max_workers, depth, crawl_urls,
                    visited_urls, pages_left, inflight, mixed_content, inspected,
                    fetches, levels, visited0, faults >>

\* line 125: the URLs of the frontier the list comprehension has not reached
ToSubmit == crawl_urls \ DOMAIN tasks

\* line 125: the future executor.submit returns
Submitted(level) ==
    [state |-> "queued", result |-> {}, level |-> level, answer |-> NoAnswer,
     raised |-> FALSE]

\* line 125: executor.submit(get_all_urls, url) for one URL of the frontier;
\* the pool may run the task at once, while the other URLs are submitted
Submit(url) ==
    /\ pc = "submit"
    /\ url \in ToSubmit
    /\ tasks' = [u \in DOMAIN tasks \cup {url} |->
                    IF u = url THEN Submitted(depth) ELSE tasks[u]]
    /\ UNCHANGED callvars
    /\ UNCHANGED << visited_at, site, crawl_depth, max_workers, pc, depth, crawl_urls,
                    visited_urls, pages_left, inflight, mixed_content, reports,
                    inspected, fetches, levels, visited0, faults >>

\* line 126: crawl_urls.clear(), after the last submit
Clear ==
    /\ pc = "submit"
    /\ ToSubmit = {}
    /\ crawl_urls' = {}
    /\ pc' = "merge"
    /\ UNCHANGED callvars
    /\ UNCHANGED << visited_at, site, crawl_depth, max_workers, depth, visited_urls,
                    pages_left, inflight, mixed_content, tasks, reports, inspected,
                    fetches, levels, visited0, faults >>

Running == {u \in DOMAIN tasks : tasks[u].state = "running"}

\* a pool that starts a thread for every task
WorkerAlwaysFree == TRUE

\* line 120: ThreadPoolExecutor(max_workers) has an idle worker
WorkerFree == Cardinality(Running) < max_workers

\* lines 61, 67: a worker takes a queued task and sends its request
TaskStart(url) ==
    /\ url \in DOMAIN tasks
    /\ tasks[url].state = "queued"
    /\ WorkerFree
    /\ tasks' = [tasks EXCEPT ![url].state = "running"]
    /\ fetches' = fetches \cup {[url |-> url, level |-> tasks[url].level, by |-> "links"]}
    /\ UNCHANGED callvars
    /\ UNCHANGED << visited_at, site, crawl_depth, max_workers, pc, depth, crawl_urls,
                    visited_urls, pages_left, inflight, mixed_content, reports,
                    inspected, levels, visited0, faults >>

\* a worker that puts its links into the shared sets itself
TaskFinishShared(url) ==
    /\ url \in DOMAIN tasks
    /\ tasks[url].state = "running"
    /\ \E r \in Answers(url) :
        /\ tasks' = [tasks EXCEPT ![url].state = "done",
                                  ![url].result = SetOf(get_all_urls(url, r)),
                                  ![url].answer = Answered(r),
                                  ![url].raised = LinksRaises(url, r)]
        /\ crawl_urls' = crawl_urls \cup (SetOf(get_all_urls(url, r)) \ visited_urls)
        /\ visited_urls' = visited_urls \cup SetOf(get_all_urls(url, r))
        /\ faults' = FaultsAfter(url, r)
    /\ UNCHANGED callvars
    /\ UNCHANGED << visited_at, site, crawl_depth, max_workers, pc, depth,
                    pages_left, inflight, mixed_content, reports,
                    inspected, fetches, levels, visited0 >>

\* lines 67-96: the answer arrives, get_all_urls returns its list
TaskFinish(url) ==
    /\ url \in DOMAIN tasks
    /\ tasks[url].state = "running"
    /\ \E r \in Answers(url) :
        /\ tasks' = [tasks EXCEPT ![url].state = "done",
                                  ![url].result = SetOf(get_all_urls(url, r)),
                                  ![url].answer = Answered(r),
                                  ![url].raised = LinksRaises(url, r)]
        /\ faults' = FaultsAfter(url, r)
    /\ UNCHANGED callvars
    /\ UNCHANGED << visited_at, site, crawl_depth, max_workers, pc, depth, crawl_urls,
                    visited_urls, pages_left, inflight, mixed_content, reports,
                    inspected, fetches, levels, visited0 >>

\* a merge that does not subtract the visited set
MergeFrontierAll(frontier, new_urls, visited) == frontier \cup new_urls

\* a merge that assigns the frontier where the program updates it
MergeFrontierLast(frontier, new_urls, visited) == new_urls \ visited

\* line 130
MergeFrontier(frontier, new_urls, visited) == frontier \cup (new_urls \ visited)

\* line 131
MergeVisited(visited, new_urls) == visited \cup new_urls

\* a loop that takes the result of a task without waiting for the task
MergeEarly(url) ==
    /\ pc = "merge"
    /\ url \in DOMAIN tasks
    /\ tasks[url].state \in {"running", "done"}
    /\ crawl_urls' = MergeFrontier(crawl_urls, tasks[url].result, visited_urls)
    /\ visited_urls' = MergeVisited(visited_urls, tasks[url].result)
    /\ tasks' = [tasks EXCEPT ![url].state = "merged"]
    /\ UNCHANGED callvars
    /\ UNCHANGED << visited_at, site, crawl_depth, max_workers, pc, depth, pages_left, inflight,
                    mixed_content, reports, inspected, fetches, levels, visited0,
                    faults >>

\* lines 128-131: as_completed yields a finished task, its result is merged
Merge(url) ==
    /\ pc = "merge"
    /\ url \in DOMAIN tasks
    /\ tasks[url].state = "done"
    /\ crawl_urls' = MergeFrontier(crawl_urls, tasks[url].result, visited_urls)
    /\ visited_urls' = MergeVisited(visited_urls, tasks[url].result)
    /\ tasks' = [tasks EXCEPT ![url].state = "merged"]
    /\ UNCHANGED callvars
    /\ UNCHANGED << visited_at, site, crawl_depth, max_workers, pc, depth, pages_left, inflight,
                    mixed_content, reports, inspected, fetches, levels, visited0,
                    faults >>

\* a loop over the tasks that stops at the first merged task
SomeMerged == \E u \in DOMAIN tasks : tasks[u].state = "merged"

\* line 128: as_completed(tasks) has yielded every task
AllMerged == \A u \in DOMAIN tasks : tasks[u].state = "merged"

\* lines 128, 120, 116: the loop over the tasks ends, the executor is shut
\* down, the next iteration of the for loop begins
LevelEnd ==
    /\ pc = "merge"
    /\ AllMerged
    /\ depth' = depth + 1
    /\ pc' = "for"
    /\ UNCHANGED callvars
    /\ UNCHANGED << visited_at, site, crawl_depth, max_workers, crawl_urls, visited_urls,
                    pages_left, inflight, mixed_content, tasks, reports, inspected,
                    fetches, levels, visited0, faults >>

Next ==
    \/ ScanReturn
    \/ LevelStart
    \/ \E u \in pages_left : CheckRequest(u)
    \/ CheckRaises
    \/ CheckResponse
    \/ Report
    \/ \E u \in crawl_urls : Submit(u)
    \/ Clear
    \/ \E u \in DOMAIN tasks : TaskStart(u)
    \/ \E u \in DOMAIN tasks : TaskFinish(u)
    \/ \E u \in DOMAIN tasks : Merge(u)
    \/ LevelEnd

Spec == Init /\ [][Next]_vars

\* every step of scan and of its workers is eventually taken: requests return,
\* the pool runs its queued tasks, the main thread goes on
FairSpec == Spec /\ WF_vars(Next)

(***************************************************************************)
(* One call of get_all_urls and of check_mixed_content on its own, for a   *)
(* page URL and a document drawn from Docs; the request is answered 200,   *)
(* text/html, without redirect, with that document.                        *)
(***************************************************************************)
CallResponse == Response(codes_ok, bs_url, TextHtml, bs)

CallInit ==
    /\ bs \in Docs
    /\ bs_url \in CallUrls
    /\ all_urls = <<>>
    /\ found = NoContent
    /\ called = {}
    /\ site = [u \in SiteUrls |-> "rel"]
    /\ crawl_depth = 0
    /\ max_workers = 1
    /\ pc = "returned"
    /\ depth = 0
    /\ crawl_urls = {}
    /\ visited_urls = {}
    /\ pages_left = {}
    /\ inflight = None
    /\ mixed_content = NoContent
    /\ tasks = NoTasks
    /\ reports = {}
    /\ inspected = {}
    /\ fetches = {}
    /\ levels = <<>>
    /\ visited0 = {}
    /\ faults = 0
    /\ visited_at = <<>>

\* lines 61-96: get_all_urls(bs_url) returns all_urls
CallGetAllUrls ==
    /\ "get_all_urls" \notin called
    /\ all_urls' = get_all_urls(bs_url, CallResponse)
    /\ called' = called \cup {"get_all_urls"}
    /\ UNCHANGED << bs, bs_url, found >>
    /\ UNCHANGED scanvars

\* lines 35-58: check_mixed_content([bs_url]) returns mixed_content
CallCheckMixedContent ==
    /\ "check_mixed_content" \notin called
    /\ found' = CheckPage(NoContent, bs_url, CallResponse)
    /\ called' = called \cup {"check_mixed_content"}
    /\ UNCHANGED << bs, bs_url, all_urls >>
    /\ UNCHANGED scanvars

CallNext ==
    \/ CallGetAllUrls
    \/ CallCheckMixedContent

CallSpec == CallInit /\ [][CallNext]_vars

(***************************************************************************)
(* Properties.                                                             *)
(***************************************************************************)
Terminated == pc \in {"returned", "raised"}

netloc(url) == urlparse(url).netloc

\* the links get_all_urls extracts from the page the site serves for url
SiteLinks(url) == SetOf(get_all_urls(url, Served(url)))

\* the URLs at most k links away from the seed
RECURSIVE Within(_)
Within(k) ==
    IF k = 0 THEN {Seed}
    ELSE LET near == Within(k - 1)
         IN  near \cup UNION {SiteLinks(u) : u \in near}

\* a level has just started: levels has its frontier as last element
LevelJustStarted == pc = "check" /\ inflight = None /\ pages_left = crawl_urls

\* the union of the results of the tasks of the level
LevelUnion == UNION {tasks[u].result : u \in DOMAIN tasks}

\* the number of requests in flight
InFlight == (IF inflight # None THEN 1 ELSE 0) + Cardinality(Running)

\* C1: during one call of scan the reporter is called at most once for each
\* page URL.
C1_ReportedAtMostOnce ==
    \A r1, r2 \in reports : r1.page_url = r2.page_url => r1 = r2

\* C2: no URL, the seed included, is in the frontier of two levels, and no URL
\* is requested in two levels.
C2_OneLevelPerUrl ==
    /\ \A i, j \in 1..Len(levels) : i # j => levels[i] \cap levels[j] = {}
    /\ \A f, g \in fetches : f.url = g.url => f.level = g.level

\* what is left to do, in lexicographic order: the levels left, the phase of
\* the level, the requests and merges left in the phase
TasksIn(state) == Cardinality({u \in DOMAIN tasks : tasks[u].state = state})

Variant ==
    << crawl_depth - depth,
       CASE pc = "for" -> 4 [] pc = "check" -> 3 [] pc = "submit" -> 2
         [] pc = "merge" -> 1 [] OTHER -> 0,
       2 * Cardinality(pages_left) + (IF inflight # None THEN 1 ELSE 0)
         + (IF pc = "submit" THEN 4 * Cardinality(ToSubmit) ELSE 0)
         + 3 * TasksIn("queued") + 2 * TasksIn("running") + TasksIn("done") >>

LexLess(a, b) ==
    \/ a[1] < b[1]
    \/ a[1] = b[1] /\ a[2] < b[2]
    \/ a[1] = b[1] /\ a[2] = b[2] /\ a[3] < b[3]

\* some step of scan or of a worker is possible (the guards of the actions,
\* a request in flight returning with one of its answers)
CanStep ==
    \/ pc = "for" /\ (RangeExhausted \/ NothingToScan)
    \/ pc = "for" /\ ~RangeExhausted /\ ~NothingToScan
    \/ pc = "check" /\ inflight = None
    \/ pc = "check" /\ inflight # None /\ Answers(inflight) # {}
    \/ pc = "submit"
    \/ \E u \in DOMAIN tasks : tasks[u].state = "queued" /\ WorkerFree
    \/ \E u \in DOMAIN tasks : tasks[u].state = "running" /\ Answers(u) # {}
    \/ pc = "merge" /\ \E u \in DOMAIN tasks : tasks[u].state = "done"
    \/ pc = "merge" /\ AllMerged

\* C3: scan terminates: while every request returns, a step is possible in
\* every state where scan has not ended, and every step decreases Variant, a
\* triple of naturals.  Scan runs at most crawl_depth levels, never runs a
\* level on an empty frontier (so sends no request for it), sends no request
\* at all when crawl_depth = 0, returns only when the range is exhausted or
\* the frontier is empty, and ends otherwise only where a request raised.
C3_LevelsBounded ==
    /\ Len(levels) <= crawl_depth
    /\ depth <= crawl_depth
    /\ \A k \in 1..Len(levels) : levels[k] # {}
    /\ \A f \in fetches : f.level < crawl_depth /\ levels[f.level + 1] # {}
    /\ crawl_depth = 0 => fetches = {}
    /\ pc = "returned" => depth = crawl_depth \/ crawl_urls = {}
    /\ pc = "raised" => faults > 0

C3_Terminates ==
    /\ [](C3_LevelsBounded /\ (Terminated \/ CanStep))
    /\ [][LexLess(Variant', Variant)]_vars

C3_Witness ==
    /\ pc = "returned"
    /\ depth >= 1
    /\ depth < crawl_depth
    /\ crawl_urls = {}

\* C4: a request that fails with a network error never makes scan raise.
C4_ScanNeverRaises == pc # "raised"

\* C5: a response is inspected, and its page reported, only if its status is
\* 200, its final URL is on the network location of the requested URL and
\* its content-type indicates HTML.
C5_InspectedOnlyHtml ==
    /\ \A i \in inspected :
        /\ i.status = 200
        /\ is_same_netloc(i.page_url, i.url)
        /\ i.content_type # None
        /\ valid_content_type(i.content_type)
    /\ pc = "check" => DOMAIN mixed_content \subseteq {i.page_url : i \in inspected}

\* the hrefs of the <a> elements of the page the site serves for url
Hrefs(url) == {e.attrs.href : e \in SetOf(find_all((Served(url)).text, "a"))}

\* C6: every URL of the frontier and of the visited set is on the network
\* location of the seed, and every link a task returned for its page is an
\* https href of the page on the page's network location, or a relative href
\* of the page joined to the page URL, on that network location too.
C6_SameNetloc ==
    /\ \A u \in crawl_urls \cup visited_urls : netloc(u) = netloc(Seed)
    /\ \A u \in DOMAIN tasks : \A link \in tasks[u].result :
        /\ netloc(link) = netloc(u)
        /\ \E href \in Hrefs(u) :
            \/ /\ link = href
               /\ urlparse(href).scheme = <<"https">>
               /\ netloc(href) = netloc(u)
            \/ /\ urlparse(href).scheme = <<>>
               /\ netloc(href) = <<>>
               /\ link = urljoin(u, href)

C6_Witness ==
    \E u \in DOMAIN tasks \cap DOMAIN site :
        /\ tasks[u].state = "merged"
        /\ site[u] = "back"
        /\ tasks[u].result = {Seed, UrlAbout}
        /\ visited_urls # {}

\* C7: the frontier a level k starts with (levels is only appended to, by
\* LevelStart) is at most k links away from the seed; a URL requested or
\* reported at level k is in the frontier of level k, and k < crawl_depth; the
\* URLs first found by the last level that ran are never requested or
\* reported.
C7_DepthBounded ==
    /\ LevelJustStarted =>
          /\ Len(levels) = depth + 1
          /\ levels[depth + 1] = crawl_urls
          /\ levels[depth + 1] \subseteq Within(depth)
    /\ \A f \in fetches :
        /\ f.level < crawl_depth
        /\ f.level < Len(levels)
        /\ f.url \in levels[f.level + 1]
    /\ \A r \in reports :
        /\ r.level < crawl_depth
        /\ r.level < Len(levels)
        /\ r.page_url \in levels[r.level + 1]
    /\ (pc = "returned" /\ depth = crawl_depth) =>
         \A u \in crawl_urls \ UNION {levels[k] : k \in 1..Len(levels)} :
            /\ \A f \in fetches : f.url # u
            /\ \A r \in reports : r.page_url # u

C7_Witness ==
    /\ pc = "returned"
    /\ depth = crawl_depth
    /\ crawl_depth >= 2
    /\ \E u \in crawl_urls : \A f \in fetches : f.url # u

\* C8: a task that is not merged yet belongs to the level being run, and
\* while check_mixed_content runs (the first requests of a level) every task
\* of the level before is merged: its result is in the visited set.
C8_LevelsSequential ==
    /\ \A u \in DOMAIN tasks :
        /\ tasks[u].state # "merged" =>
              pc \in {"submit", "merge"} /\ tasks[u].level = depth
        /\ tasks[u].state = "merged" => tasks[u].result \subseteq visited_urls
        /\ tasks[u].level <= depth
    /\ \A f \in fetches : f.level <= depth
    /\ \A f \in fetches : \A u \in DOMAIN tasks :
          tasks[u].level < f.level => tasks[u].state = "merged"
    /\ (pc = "check" \/ inflight # None) =>
          \A u \in DOMAIN tasks : tasks[u].state = "merged" /\ tasks[u].level < depth

C8_Witness ==
    /\ pc = "check"
    /\ depth >= 1
    /\ inflight # None
    /\ Cardinality(DOMAIN tasks) >= 1
    /\ \E f \in fetches : f.level = depth

\* C9: the number of requests in flight never exceeds max_workers.
C9_BoundedFetches == InFlight <= max_workers

C9_Witness ==
    /\ InFlight = max_workers
    /\ \E u \in DOMAIN tasks : tasks[u].state = "queued"

\* C10: when a level has completed, the frontier is the union of the results
\* of its tasks (one task per URL of its frontier) minus the visited set as
\* the level found it, and the visited set is that set united with the
\* union; for the seed page with the single anchor /about the frontier
\* after level 0 is {https://site.test/about}.
C10_NextFrontier ==
    (pc \in {"for", "returned"} /\ depth >= 1) =>
        /\ DOMAIN tasks = levels[depth]
        /\ crawl_urls = LevelUnion \ visited0
        /\ visited_urls = visited0 \cup LevelUnion
        /\ (depth = 1 /\ site[Seed] = "scenario"
            /\ tasks[Seed].result = SiteLinks(Seed)) => crawl_urls = {UrlAbout}

C10_Witness ==
    /\ pc = "for"
    /\ depth >= 2
    /\ LevelUnion \cap visited0 # {}
    /\ crawl_urls # {}
    /\ \E u, v \in DOMAIN tasks : u # v /\ tasks[u].result \cap tasks[v].result # {}

\* C11: an anchor that passes the self-link, fragment and extension filters
\* is accepted unchanged iff its scheme is https and its network location is
\* the page's; otherwise it is accepted resolved against the page URL iff its
\* scheme and network location are empty and its path is not; every other
\* href is discarded, among them other-origin and http: absolute links,
\* mailto:, javascript:, scheme-relative and query-only hrefs.
C11_PassesFilters(href_url, page_url) ==
    /\ href_url # page_url
    /\ href_url # <<"/">>
    /\ ~(Truthy(href_url) /\ href_url[1] = "#")
    /\ \/ splitext_ext(urlparse(href_url).path) = <<>>
       \/ Lower(splitext_ext(urlparse(href_url).path)) \in web_page_ext

C11_Accepted(href_url, page_url) ==
    LET u == urlparse(href_url)
    IN  IF ~C11_PassesFilters(href_url, page_url) THEN <<>>
        ELSE IF u.scheme = <<"https">> /\ u.netloc = urlparse(page_url).netloc
             THEN <<href_url>>
        ELSE IF u.scheme = <<>> /\ u.netloc = <<>> /\ u.path # <<>>
             THEN <<urljoin(page_url, href_url)>>
        ELSE <<>>

RECURSIVE C11_AcceptedAll(_, _)
C11_AcceptedAll(anchors, page_url) ==
    IF anchors = <<>> THEN <<>>
    ELSE C11_Accepted(Head(anchors).attrs.href, page_url)
         \o C11_AcceptedAll(Tail(anchors), page_url)

C11_Discarded ==
    { <<"https", ":", "/", "/", "evil.test", "/", "x">>, HttpSameSite, MailTo,
      JavaScript, SchemeRelative, QueryOnly }

C11_LinkClassification ==
    "get_all_urls" \in called =>
        /\ all_urls = C11_AcceptedAll(find_all(bs, "a"), bs_url)
        /\ \A i \in 1..Len(bs) :
              bs[i].tag = "a" /\ bs[i].attrs.href \in C11_Discarded
              => Len(all_urls) < Len(find_all(bs, "a"))
        /\ (\A i \in 1..Len(bs) : bs[i].tag = "a" => bs[i].attrs.href \in C11_Discarded)
              => all_urls = <<>>

\* a query-only href is discarded, a relative one is resolved, an absolute
\* one of the site is kept as it is
C11_Witness ==
    /\ "get_all_urls" \in called
    /\ bs_url = DeepUrl
    /\ \/ /\ bs = << A(QueryOnly), A(<<"b">>) >>
          /\ all_urls = << <<"https", ":", "/", "/", "site.test", "/", "a", "/", "b">> >>
       \/ /\ bs = << A(<<"/", "about">>), A(UpperSameSite) >>
          /\ all_urls = << <<"https", ":", "/", "/", "site.test", "/", "about">>,
                           UpperSameSite >>

\* C12: the findings of a document are those of a walk of the scan table in
\* order and, for each entry, of the elements of that tag in document order:
\* one finding if the listed attribute is present and contains "http:", and
\* for script and style one more if the inline text contains "http:".  A
\* script with an http: src and inline http: text yields two findings; one
\* http: img and one inline script that mentions http: yield exactly two.
RECURSIVE C12_Concat(_)
C12_Concat(lists) ==
    IF lists = <<>> THEN <<>> ELSE Head(lists) \o C12_Concat(Tail(lists))

C12_Contribution(e, attr) ==
    (IF attr # "" /\ e.attrs[attr] \notin {None, <<>>} /\ HasHttp(e.attrs[attr])
     THEN << [kind |-> "attr_value", value |-> e.attrs[attr]] >> ELSE <<>>)
    \o (IF e.tag \in {"script", "style"} /\ HasHttp(e.text)
        THEN << [kind |-> "tag", value |-> e.text] >> ELSE <<>>)

C12_Walk(doc) ==
    C12_Concat([k \in 1..Len(tags_to_check) |->
        C12_Concat([i \in 1..Len(doc) |->
            IF doc[i].tag = tags_to_check[k][1]
            THEN C12_Contribution(doc[i], tags_to_check[k][2])
            ELSE <<>>])])

C12_Found == IF bs_url \in DOMAIN found THEN found[bs_url] ELSE <<>>

C12_Findings ==
    "check_mixed_content" \in called =>
        /\ C12_Found = C12_Walk(bs)
        /\ (\E i \in 1..Len(bs) : bs[i] = Script(HttpImg, HttpText))
              => Len(SelectSeq(C12_Found, LAMBDA f : f.value \in {HttpImg, HttpText})) >= 2
        /\ bs = << Script(HttpImg, HttpText) >> => Len(C12_Found) = 2
        /\ bs \in { << Img(HttpImg), Script(None, HttpText) >>,
                     << Script(None, HttpText), Img(HttpImg) >> }
              => C12_Found = << [kind |-> "attr_value", value |-> HttpImg],
                                [kind |-> "tag", value |-> HttpText] >>

\* the img is reported before the script that precedes it in the document,
\* and the script is reported twice
C12_Witness ==
    /\ "check_mixed_content" \in called
    /\ bs = << Script(HttpImg, HttpText), Img(HttpImg) >>
    /\ C12_Found = << [kind |-> "attr_value", value |-> HttpImg],
                      [kind |-> "attr_value", value |-> HttpImg],
                      [kind |-> "tag", value |-> HttpText] >>

\* C13: in every reachable state of scan the visited set contains every URL
\* that has been in a frontier, the seed of level 0 included (that the visited
\* set only grows is C13_VisitedGrows).
C13_VisitedCoversFrontiers ==
    /\ crawl_urls \subseteq visited_urls
    /\ \A i \in 1..Len(levels) : levels[i] \subseteq visited_urls

\* the second half of C13: no step removes a URL from the visited set
C13_VisitedGrows == [][visited_urls \subseteq visited_urls']_vars

\* the first half of C13 without the seed: every URL of a frontier other than
\* the seed is in the visited set
C13_ButSeed ==
    /\ crawl_urls \ {Seed} \subseteq visited_urls
    /\ \A i \in 1..Len(levels) : levels[i] \ {Seed} \subseteq visited_urls

\* C14: a URL that is in the visited set when level k starts is in no
\* frontier built during level k or later, whatever the pages link to
\* (levels[j] with j > k is the frontier built during level j - 1 >= k; the
\* frontier being built during the running level is crawl_urls once it has
\* been cleared).
C14_VisitedNotRefetched ==
    /\ \A k \in 1..Len(visited_at) : \A j \in (k + 1)..Len(levels) :
          levels[j] \cap visited_at[k] = {}
    /\ pc = "merge" =>
          \A k \in 1..Len(visited_at) : crawl_urls \cap visited_at[k] = {}

\* a page of level 1 or later links to a URL that was visited when its level
\* started, and the level has been merged
C14_Witness ==
    /\ pc = "merge"
    /\ Len(visited_at) >= 2
    /\ \A u \in DOMAIN tasks : tasks[u].state = "merged"
    /\ \E u \in DOMAIN tasks :
          tasks[u].result \cap visited_at[Len(visited_at)] # {}
    /\ crawl_urls # {}

\* a step of a worker: a task of the pool starts or finishes
WorkerStep(u) ==
    /\ u \in DOMAIN tasks
    /\ u \in DOMAIN tasks'
    /\ \/ tasks[u].state = "queued" /\ tasks'[u].state = "running"
       \/ tasks[u].state = "running" /\ tasks'[u].state = "done"

\* a step of the main thread that changes the frontier or the visited set:
\* the frontier is cleared, or the result of one finished task is merged
ClearStep == pc = "submit" /\ pc' = "merge" /\ crawl_urls' = {} /\ UNCHANGED visited_urls

MergeStep(u) ==
    /\ pc = "merge"
    /\ u \in DOMAIN tasks
    /\ tasks[u].state = "done"
    /\ tasks' = [tasks EXCEPT ![u].state = "merged"]
    /\ crawl_urls' = crawl_urls \cup (tasks[u].result \ visited_urls)
    /\ visited_urls' = visited_urls \cup tasks[u].result

\* C15: a worker task neither reads nor writes the frontier and the visited
\* set: a step of a task leaves both unchanged and its result is what
\* get_all_urls gives for its own URL and the answer to its request; every
\* change of the frontier or of the visited set is one step of the main
\* thread, the clearing or the merge of one finished task.
C15_WorkersLeaveSetsAlone ==
    [][ /\ \A u \in DOMAIN tasks : WorkerStep(u) =>
              /\ UNCHANGED << crawl_urls, visited_urls >>
              /\ \A v \in DOMAIN tasks \ {u} : tasks'[v] = tasks[v]
              /\ tasks'[u].state = "done" =>
                    \E r \in {Served(u)} \cup Odd(u) :
                        tasks'[u].result = SetOf(get_all_urls(u, r))
        /\ (crawl_urls' # crawl_urls \/ visited_urls' # visited_urls) =>
              (ClearStep \/ \E u \in DOMAIN tasks : MergeStep(u))
      ]_vars

\* a worker has finished with links that are not merged yet, after the main
\* thread has merged the links of another task of the level
C15_Witness ==
    /\ pc = "merge"
    /\ \E u \in DOMAIN tasks :
          /\ tasks[u].state = "done"
          /\ ~(tasks[u].result \subseteq visited_urls)
    /\ \E v \in DOMAIN tasks :
          /\ tasks[v].state = "merged"
          /\ tasks[v].result # {}

\* C16: within a level the results are merged only after all tasks of the
\* level have completed: no merge step happens while a task of the level is
\* still running.
C16_MergeAfterAllCompleted ==
    [][ \A u \in DOMAIN tasks : MergeStep(u) =>
            \A v \in DOMAIN tasks : tasks[v].state # "running" ]_vars

\* C16 as the program has it: the result of a task is merged only after
\* that task has completed, by one step of the main thread for one finished
\* task, while other tasks of the level can still be queued or running; the
\* level ends only when every task of it has been merged.
C16_MergeAfterOwnCompletion ==
    [][ /\ \A u \in DOMAIN tasks \cap DOMAIN tasks' :
              (tasks[u].state # "merged" /\ tasks'[u].state = "merged") => MergeStep(u)
        /\ depth' # depth => \A u \in DOMAIN tasks : tasks[u].state = "merged"
      ]_vars

\* the links of one task are merged while another task of the level runs
C16_Witness ==
    /\ pc = "merge"
    /\ \E u, v \in DOMAIN tasks :
          /\ tasks[u].state = "merged"
          /\ tasks[u].result # {}
          /\ tasks[u].result \subseteq visited_urls
          /\ tasks[v].state = "running"

\* the task of u has run and its answer passed the test of lines 69-71:
\* the links of u were extracted
LinksExtracted(u) ==
    /\ tasks[u].state \in {"done", "merged"}
    /\ ~tasks[u].answer.exc
    /\ tasks[u].answer.status = 200
    /\ netloc(tasks[u].answer.url) = netloc(u)
    /\ tasks[u].answer.content_type # None
    /\ valid_content_type(tasks[u].answer.content_type)

\* check_mixed_content parsed a response for u in the level being run
Inspected(u) == \E i \in inspected : i.page_url = u

\* C17: within a level inspection and link extraction work on the same
\* qualifying fetches: each URL of the frontier is requested once in the
\* level, and once its task has finished the URL has been inspected iff its
\* links were extracted, whatever the server answers.
C17_SameQualifyingFetches ==
    /\ \A f, g \in fetches : (f.url = g.url /\ f.level = g.level) => f = g
    /\ pc = "merge" =>
          \A u \in DOMAIN tasks :
              tasks[u].state \in {"done", "merged"} => (Inspected(u) <=> LinksExtracted(u))

\* the second half of C17 alone, for a server that answers every request
\* the same way
C17_SameQualifyingPages ==
    (pc = "merge" /\ faults = 0) =>
        \A u \in DOMAIN tasks :
            tasks[u].state \in {"done", "merged"} => (Inspected(u) <=> LinksExtracted(u))

\* C18: the reporter is called only with a non-empty sequence of findings: a
\* parsed page on which nothing is flagged, and a page whose fetch does not
\* qualify, cause no call of the reporter.
C18_ReportsNonEmpty ==
    /\ \A r \in reports : r.resources # <<>>
    /\ \A u \in DOMAIN mixed_content : mixed_content[u] # <<>>
    /\ pc = "merge" =>
          \A u \in DOMAIN tasks :
              LET calls == {r \in reports : r.page_url = u /\ r.level = depth}
              IN  /\ ~Inspected(u) => calls = {}
                  /\ (u \in DOMAIN site /\ MixedContentOf((Served(u)).text) = <<>>)
                        => calls = {}

\* the seed page was parsed, nothing was flagged on it, no report was made
C18_Witness ==
    /\ pc = "merge"
    /\ depth = 0
    /\ Inspected(Seed)
    /\ MixedContentOf((Served(Seed)).text) = <<>>
    /\ reports = {}

\* the fetch of the finished task of u did not qualify: its request raised,
\* or was answered with a status other than 200, from another network
\* location, or not as HTML
FetchFailed(u) ==
    /\ tasks[u].state \in {"done", "merged"}
    /\ \/ tasks[u].answer.exc
       \/ tasks[u].answer.status # 200
       \/ tasks[u].answer.content_type = None
       \/ ~valid_content_type(tasks[u].answer.content_type)
       \/ netloc(tasks[u].answer.url) # netloc(u)

\* link extraction for u raised an exception, or its fetch did not qualify
ExtractionFailed(u) ==
    /\ tasks[u].state \in {"done", "merged"}
    /\ (tasks[u].raised \/ FetchFailed(u))

\* the union of the results of the tasks of the level that did not fail
GoodUnion ==
    UNION {tasks[u].result : u \in {v \in DOMAIN tasks : ~ExtractionFailed(v)}}

\* C19: a task whose extraction raised or whose fetch did not qualify returns
\* the empty list: it adds nothing to the next frontier or to the visited
\* set, the results of the other tasks of the level are merged unchanged,
\* and scan goes on: it does not raise, the task is merged like any other.
C19_FailedTaskReturnsNothing ==
    /\ \A u \in DOMAIN tasks : ExtractionFailed(u) => tasks[u].result = {}
    /\ \A u \in DOMAIN tasks :
          (ExtractionFailed(u) /\ tasks[u].state = "done") => pc \in {"submit", "merge"}
    /\ (pc \in {"for", "returned"} /\ depth >= 1) =>
          /\ crawl_urls = GoodUnion \ visited0
          /\ visited_urls = visited0 \cup GoodUnion

\* the part of C19 about the fetch: a task whose fetch did not qualify
\* returns the empty list, and scan goes on
C19_FetchFailureReturnsNothing ==
    /\ \A u \in DOMAIN tasks : FetchFailed(u) => tasks[u].result = {}
    /\ \A u \in DOMAIN tasks :
          (ExtractionFailed(u) /\ tasks[u].state = "done") => pc \in {"submit", "merge"}

\* the union of the results merged so far in the level
MergedUnion ==
    UNION {tasks[u].result : u \in {v \in DOMAIN tasks : tasks[v].state = "merged"}}

\* C20: for a fixed frontier and fixed results of its tasks the frontier and
\* the visited set at the end of the level are the same for every order in
\* which the tasks complete and are merged: at every point of the merge both
\* sets are determined by the set of the tasks merged so far, not by their
\* order, and so they are when all tasks are merged.
C20_MergeOrderIndependent ==
    pc = "merge" =>
        /\ crawl_urls = MergedUnion \ visited0
        /\ visited_urls = visited0 \cup MergedUnion

\* of two tasks with different results that share a link, one is merged
\* and the other has finished and is not merged yet
C20_Witness ==
    /\ pc = "merge"
    /\ \E u, v \in DOMAIN tasks :
          /\ tasks[u].state = "merged"
          /\ tasks[v].state = "done"
          /\ tasks[u].result \cap tasks[v].result # {}
          /\ tasks[u].result \ tasks[v].result # {}
          /\ tasks[v].result \ tasks[u].result # {}

====
